---------------------------- MODULE Spec2Model ----------------------------
(***************************************************************************)
(* Citizen AI feedback service (src/CitizenAI.py): the rule-based text     *)
(* analysis (tokenize, simple_sentiment_score, tag_themes) and the request *)
(* handlers over the SQLite feedback table (submit, list, summary,         *)
(* actionable recommendations).                                            *)
(*                                                                         *)
(* Representation.                                                         *)
(*  - A Python str is a sequence of one-character strings, so that strip,  *)
(*    the \w+ tokenizer, startswith, the "in" substring test, ','.join,    *)
(*    split(',') and the key order of sorted JSON output are computed      *)
(*    character by character.                                              *)
(*  - A sentiment rounded to 3 decimals is the integer number of           *)
(*    thousandths (-0.2 is -200).                                          *)
(*  - A Python float (IEEE-754 binary64) met while averaging is a pair     *)
(*    [k, r] standing for the real number k/1000 + r/(1000 * 2^F): k is    *)
(*    the decimal part in thousandths and r the (tiny) distance of the     *)
(*    double from it.  Every addition and division rounds to the nearest   *)
(*    double, ties to even, as the hardware does.  sum() adds from left    *)
(*    to right, starting from 0.                                           *)
(*  - A dict whose order matters (a Counter, by_category) is a sequence of *)
(*    [key, value] in insertion order.                                     *)
(*  - The table exists from the start (init_db runs before the server      *)
(*    accepts requests), and rows are selected in rowid order.             *)
(***************************************************************************)
EXTENDS Integers, Sequences, FiniteSets, TLC

VARIABLES
    store,      \* rows of table feedback, in rowid order
    clock,      \* datetime.utcnow(), as a counter that every accepted
                \* submission advances: no two rows share a created_at
    request,    \* the HTTP request last handled
    response,   \* the HTTP response to it: [status, body]
    text,       \* analyzer run: the text given to the analysis functions
    analysis    \* analyzer run: their results for text, or NoAnalysis

vars == <<store, clock, request, response, text, analysis>>

-----------------------------------------------------------------------------
(* Bounds of the model *)

MaxRecords == 3     \* rows the feedback table may hold
MaxWords == 3       \* words typed into an analyzed text

-----------------------------------------------------------------------------
(* Characters and strings *)

UpperCase == <<"A","B","C","D","E","F","G","H","I","J","K","L","M",
               "N","O","P","Q","R","S","T","U","V","W","X","Y","Z">>
LowerCase == <<"a","b","c","d","e","f","g","h","i","j","k","l","m",
               "n","o","p","q","r","s","t","u","v","w","x","y","z">>
Digits == <<"0","1","2","3","4","5","6","7","8","9">>

\* The characters of the model in code point order: Python compares str
\* values code point by code point.
CodePoints == <<" ", "!", ",", "-", ".">> \o Digits \o <<";", "@">>
              \o UpperCase \o <<"_">> \o LowerCase

Range(s) == { s[i] : i \in DOMAIN s }

ord(c) == CHOOSE i \in DOMAIN CodePoints : CodePoints[i] = c

\* str.lower() on one character
lower(c) ==
    IF c \in Range(UpperCase)
    THEN LowerCase[CHOOSE i \in DOMAIN UpperCase : UpperCase[i] = c]
    ELSE c

\* a character matched by the regular expression \w
IsWordChar(c) == c \in Range(UpperCase) \cup Range(LowerCase) \cup Range(Digits) \cup {"_"}

IsSpace(c) == c = " "

\* str.strip()
strip(s) ==
    LET keep == { i \in DOMAIN s : ~IsSpace(s[i]) }
    IN  IF keep = {} THEN <<>>
        ELSE SubSeq(s, CHOOSE i \in keep : \A j \in keep : i <= j,
                       CHOOSE i \in keep : \A j \in keep : j <= i)

\* t.startswith(p)
startswith(t, p) == Len(p) <= Len(t) /\ SubSeq(t, 1, Len(p)) = p

\* kw in t
contains(t, kw) ==
    \E i \in 1..(Len(t) - Len(kw) + 1) : SubSeq(t, i, i + Len(kw) - 1) = kw

\* a < b for str
RECURSIVE StrLess(_, _)
StrLess(a, b) ==
    IF b = <<>> THEN FALSE
    ELSE IF a = <<>> THEN TRUE
    ELSE IF Head(a) = Head(b) THEN StrLess(Tail(a), Tail(b))
    ELSE ord(Head(a)) < ord(Head(b))

\* sep.join(parts)
RECURSIVE join(_, _)
join(sep, parts) ==
    IF parts = <<>> THEN <<>>
    ELSE IF Len(parts) = 1 THEN parts[1]
    ELSE parts[1] \o sep \o join(sep, Tail(parts))

\* s.split(c) for a one-character separator c
RECURSIVE split(_, _)
split(s, c) ==
    LET hits == { i \in DOMAIN s : s[i] = c }
    IN  IF hits = {} THEN <<s>>
        ELSE LET i == CHOOSE h \in hits : \A g \in hits : h <= g
             IN  <<SubSeq(s, 1, i - 1)>> \o split(SubSeq(s, i + 1, Len(s)), c)

\* the orders in which iterating a Python set may yield its elements (the
\* order follows the strings' hashes, which are salted per process)
Orderings(S) ==
    { q \in [1..Cardinality(S) -> S] : \A i, j \in DOMAIN q : i # j => q[i] # q[j] }

-----------------------------------------------------------------------------
(* Simple NLP helpers *)

POSITIVE_WORDS ==
    { <<"g","o","o","d">>, <<"g","r","e","a","t">>, <<"e","x","c","e","l","l","e","n","t">>,
      <<"h","a","p","p","y">>, <<"s","a","t","i","s","f","i","e","d">>, <<"l","o","v","e">>,
      <<"l","i","k","e">>, <<"a","w","e","s","o","m","e">>, <<"f","a","s","t">>,
      <<"h","e","l","p","f","u","l">>, <<"r","e","s","o","l","v","e","d">>, <<"t","h","a","n","k">> }

NEGATIVE_WORDS ==
    { <<"b","a","d">>, <<"p","o","o","r">>, <<"t","e","r","r","i","b","l","e">>,
      <<"a","n","g","r","y">>, <<"d","i","s","a","p","p","o","i","n","t","e","d">>, <<"h","a","t","e">>,
      <<"s","l","o","w">>, <<"d","e","l","a","y">>, <<"d","e","l","a","y","e","d">>,
      <<"n","o","t">>, <<"i","s","s","u","e">>, <<"p","r","o","b","l","e","m">>,
      <<"c","o","m","p","l","a","i","n","t">>, <<"r","e","f","u","n","d">>, <<"f","r","u","s","t","r","a","t">> }

THEME_KEYWORDS ==
    << [theme |-> <<"r","e","f","u","n","d","s">>,
        kws |-> << <<"r","e","f","u","n","d">>, <<"r","e","f","u","n","d","s">>,
                  <<"r","e","i","m","b","u","r","s","e","m","e","n","t">> >>],
       [theme |-> <<"d","e","l","i","v","e","r","y">>,
        kws |-> << <<"d","e","l","i","v","e","r","y">>, <<"d","e","l","i","v","e","r">>,
                  <<"s","h","i","p","p","i","n","g">>, <<"s","h","i","p","m","e","n","t">>,
                  <<"s","h","i","p">>, <<"d","e","l","a","y">>,
                  <<"d","e","l","a","y","e","d">> >>],
       [theme |-> <<"s","e","r","v","i","c","e">>,
        kws |-> << <<"s","e","r","v","i","c","e">>, <<"s","u","p","p","o","r","t">>,
                  <<"h","e","l","p","d","e","s","k">>, <<"c","u","s","t","o","m","e","r"," ","s","e","r","v","i","c","e">>,
                  <<"a","g","e","n","t">> >>],
       [theme |-> <<"i","n","f","r","a","s","t","r","u","c","t","u","r","e">>,
        kws |-> << <<"r","o","a","d">>, <<"w","a","t","e","r">>,
                  <<"e","l","e","c","t","r","i","c">>, <<"p","o","w","e","r">>,
                  <<"s","e","w","a","g","e">>, <<"s","t","r","e","e","t">>,
                  <<"l","i","g","h","t","i","n","g">> >>],
       [theme |-> <<"s","a","f","e","t","y">>,
        kws |-> << <<"s","a","f","e","t","y">>, <<"c","r","i","m","e">>,
                  <<"p","o","l","i","c","e">>, <<"a","c","c","i","d","e","n","t">>,
                  <<"d","a","n","g","e","r">> >>],
       [theme |-> <<"e","d","u","c","a","t","i","o","n">>,
        kws |-> << <<"s","c","h","o","o","l">>, <<"c","o","l","l","e","g","e">>,
                  <<"e","d","u","c","a","t","i","o","n">>, <<"t","e","a","c","h","e","r">>,
                  <<"e","x","a","m">> >>] >>

GENERAL == <<"g","e","n","e","r","a","l">>

\* WORD_RE.findall(text), each match lower-cased
tokenize(txt) ==
    LET RECURSIVE scan(_, _, _)
        scan(i, cur, acc) ==
            IF i > Len(txt)
            THEN IF cur = <<>> THEN acc ELSE Append(acc, cur)
            ELSE IF IsWordChar(txt[i])
                 THEN scan(i + 1, Append(cur, lower(txt[i])), acc)
                 ELSE scan(i + 1, <<>>, IF cur = <<>> THEN acc ELSE Append(acc, cur))
    IN  scan(1, <<>>, <<>>)

Max(a, b) == IF a >= b THEN a ELSE b

\* round(num/den, 3) in thousandths, for den > 0: the nearest thousandth, an
\* exact half going to the even one.
RoundRatio3(num, den) ==
    LET q == (1000 * num) \div den
        rem == (1000 * num) % den
    IN  IF 2 * rem < den THEN q
        ELSE IF 2 * rem > den THEN q + 1
        ELSE IF q % 2 = 0 THEN q ELSE q + 1

\* the raw difference, neither normalised nor clamped
simple_sentiment_score_raw(txt) ==
    LET tokens == tokenize(txt)
        pos == Cardinality({ i \in DOMAIN tokens :
                   \E p \in POSITIVE_WORDS : startswith(tokens[i], p) })
        neg == Cardinality({ i \in DOMAIN tokens :
                   \E n \in NEGATIVE_WORDS : startswith(tokens[i], n) })
    IN  1000 * (pos - neg)

\* keywords matched as whole tokens instead of as prefixes
simple_sentiment_score_exact(txt) ==
    LET tokens == tokenize(txt)
        pos == Cardinality({ i \in DOMAIN tokens : tokens[i] \in POSITIVE_WORDS })
        neg == Cardinality({ i \in DOMAIN tokens : tokens[i] \in NEGATIVE_WORDS })
    IN  IF tokens = <<>> THEN 0 ELSE RoundRatio3(pos - neg, Max(1, pos + neg))

\* simple_sentiment_score(text), in thousandths
simple_sentiment_score(txt) ==
    LET tokens == tokenize(txt)
        pos == Cardinality({ i \in DOMAIN tokens :
                   \E p \in POSITIVE_WORDS : startswith(tokens[i], p) })
        neg == Cardinality({ i \in DOMAIN tokens :
                   \E n \in NEGATIVE_WORDS : startswith(tokens[i], n) })
        num == pos - neg
        den == Max(1, pos + neg)
    IN  IF tokens = <<>> THEN 0
        ELSE IF num > den THEN 1000
        ELSE IF num < -den THEN -1000
        ELSE RoundRatio3(num, den)

\* keywords matched at the start of a token instead of anywhere in it
tag_themes_prefix(txt) ==
    LET tokens == tokenize(txt)
        tags == { THEME_KEYWORDS[i].theme : i \in
                    { j \in DOMAIN THEME_KEYWORDS :
                        \E k \in DOMAIN THEME_KEYWORDS[j].kws :
                            \E t \in Range(tokens) :
                                startswith(t, THEME_KEYWORDS[j].kws[k]) } }
    IN  IF tags # {} THEN tags ELSE {GENERAL}

\* tag_themes(text): the set of tags; the caller sees list(tags), in one of
\* the set's iteration orders
tag_themes(txt) ==
    LET tokens == tokenize(txt)
        tags == { THEME_KEYWORDS[i].theme : i \in
                    { j \in DOMAIN THEME_KEYWORDS :
                        \E k \in DOMAIN THEME_KEYWORDS[j].kws :
                            \E t \in Range(tokens) :
                                contains(t, THEME_KEYWORDS[j].kws[k]) } }
    IN  IF tags # {} THEN tags ELSE {GENERAL}

-----------------------------------------------------------------------------
(* Python float arithmetic (binary64) *)

MantissaBits == 52                  \* stored significand bits of a binary64
F == MantissaBits + 13              \* residuals are counted in 1/(1000 * 2^F)

\* 2^t mod d, thirteen bits at a time
RECURSIVE Pow2Mod(_, _)
Pow2Mod(t, d) ==
    IF t <= 13 THEN (2^t) % d ELSE (2^13 * Pow2Mod(t - 13, d)) % d

\* 2^j <= (K + R/2^F) / D, for K >= 1 and |R| < 2^F
AtLeastPow2(K, R, D, j) ==
    LET a == IF j >= 0 THEN K ELSE K * 2^(-j)
        b == IF j >= 0 THEN D * 2^j ELSE D
    IN  a > b \/ (a = b /\ R >= 0)

\* The residual of the double nearest to y = (K*2^F + R) / (D*2^F), y >= 0:
\* y lies in [2^j, 2^(j+1)), doubles there are the multiples of 2^(j-52),
\* that is of Q = D * 2^(F-52+j) residual units; rem is y's distance above the
\* double below it.
RoundPositive(K, R, D) ==
    IF K = 0 THEN R
    ELSE
    LET j == CHOOSE e \in -14..3 :
                 AtLeastPow2(K, R, D, e) /\ (e = 3 \/ ~AtLeastPow2(K, R, D, e + 1))
        t == MantissaBits - j
        U == 2^(F - t)
        Q == D * U
        rem == (U * ((K * Pow2Mod(t, D)) % D) + R) % Q
        rem2 == (U * ((K * Pow2Mod(t, 2 * D)) % (2 * D)) + R) % (2 * Q)
    IN  IF 2 * rem < Q THEN R - rem
        ELSE IF 2 * rem > Q THEN R + (Q - rem)
        ELSE IF rem2 < Q THEN R - rem       \* a tie: to the even significand
        ELSE R + (Q - rem)

\* round to nearest, ties to even, of (K*2^F + R) / (D*2^F)
RoundNearest(K, R, D) ==
    IF K < 0 \/ (K = 0 /\ R < 0) THEN -RoundPositive(-K, -R, D)
    ELSE RoundPositive(K, R, D)

\* the double a REAL column or a literal of k thousandths holds
FromDecimal(k) == [k |-> k, r |-> RoundNearest(k, 0, 1000)]

\* x + y
FloatAdd(x, y) == [k |-> x.k + y.k, r |-> RoundNearest(x.k + y.k, x.r + y.r, 1000)]

\* sum(svals): 0 + svals[1] + svals[2] + ... from left to right, each
\* addition rounded
RECURSIVE FloatSum(_)
FloatSum(svals) ==
    IF svals = <<>> THEN [k |-> 0, r |-> 0]
    ELSE FloatAdd(FloatSum(SubSeq(svals, 1, Len(svals) - 1)),
                  FromDecimal(svals[Len(svals)]))

\* sum(svals) / max(1, len(svals)): the double (k*2^F + r) / (1000*n*2^F)
FloatAvg(svals) ==
    LET n == Max(1, Len(svals))
        s == FloatSum(svals)
        trunc == IF s.r >= 0 THEN s.r \div n ELSE -((-s.r) \div n)
    IN  [k |-> s.k, n |-> n,
         r |-> IF s.k = 0 THEN trunc ELSE RoundNearest(s.k, s.r, 1000 * n)]

\* avg < literal, the literal given in thousandths
FloatLess(avg, literal) ==
    LET lit == FromDecimal(literal)
        c == avg.k - literal * avg.n
    IN  c < 0 \/ (c = 0 /\ 0 < avg.n * lit.r - avg.r)

\* round(avg, 3), in thousandths
FloatRound3(avg) ==
    LET q == avg.k \div avg.n
        rem == avg.k % avg.n
    IN  IF 2 * rem < avg.n THEN q
        ELSE IF 2 * rem > avg.n THEN q + 1
        ELSE IF avg.r > 0 THEN q + 1
        ELSE IF avg.r < 0 THEN q
        ELSE IF q % 2 = 0 THEN q ELSE q + 1

-----------------------------------------------------------------------------
(* Requests *)

UNCATEGORIZED == <<"u","n","c","a","t","e","g","o","r","i","z","e","d">>
COMMA == <<",">>

\* JSON bodies posted to /feedback; a key left out reads as ''.
Payloads ==
    { [title |-> <<" "," ">>, body |-> <<>>,
       category |-> <<"r","o","a","d","s">>, contact |-> <<>>],
      [title |-> <<" ","G","o","o","d",","," ","g","r","e","a","t">>,
       body |-> <<"b","a","d"," ","p","o","o","r"," ","s","l","o","w">>,
       category |-> <<"r","o","a","d","s">>, contact |-> <<"a","@","b",".","i","n"," ">>],
      [title |-> <<"R","e","f","u","n","d"," ","d","e","l","a","y">>, body |-> <<" ">>,
       category |-> <<"b","i","l","l","i","n","g">>, contact |-> <<>>],
      [title |-> <<>>, body |-> <<"T","h","a","n","k","s","!">>,
       category |-> <<" ">>, contact |-> <<>>],
      [title |-> <<"D","e","l","a","y","e","d">>,
       body |-> <<"b","a","d",","," ","b","u","t"," ","g","o","o","d">>,
       category |-> <<"b","i","l","l","i","n","g">>, contact |-> <<>>] }

\* JSON bodies that touch every theme of THEME_KEYWORDS
ThemePayloads ==
    { [title |-> <<"R","e","f","u","n","d"," ","d","e","l","a","y">>,
       body |-> <<"a","g","e","n","t">>,
       category |-> <<"b","i","l","l","i","n","g">>, contact |-> <<>>],
      [title |-> <<>>,
       body |-> <<"r","o","a","d"," ","p","o","l","i","c","e"," ","s","c","h","o","o","l">>,
       category |-> <<"r","o","a","d","s">>, contact |-> <<>>],
      [title |-> <<"T","h","a","n","k","s">>, body |-> <<>>,
       category |-> <<"r","o","a","d","s">>, contact |-> <<>>] }

\* ?tag= of GET /feedback; the parameter left out is None, which the handler
\* treats as it treats '' (both are false)
TagFilters == { <<>>, <<"d","e","l","i","v","e","r","y">> }

\* ?min_sent= of GET /feedback in thousandths; left out, it is '-1'
DEFAULT_MIN_SENT == -1000
MinSents == { DEFAULT_MIN_SENT, 0 }

NoRequest == [op |-> "none"]
NoResponse == [status |-> 0]

-----------------------------------------------------------------------------
(* Database helpers *)

\* INSERT INTO feedback (...) on an INTEGER PRIMARY KEY AUTOINCREMENT table
\* written with a fixed id: the row replaces the one that holds the id
insert_replacing(rows, values) ==
    IF rows = <<>> THEN <<values @@ [id |-> 1]>>
    ELSE [rows EXCEPT ![1] = values @@ [id |-> 1]]

\* INSERT INTO feedback (...): the new row gets the next rowid (no row is
\* ever deleted, so that is one more than the largest id in the table)
insert(rows, values) ==
    LET ids == { rows[i].id : i \in DOMAIN rows }
        rowid == IF ids = {} THEN 1
                 ELSE 1 + CHOOSE m \in ids : \A x \in ids : x <= m
    IN  Append(rows, values @@ [id |-> rowid])

\* SELECT * FROM feedback ORDER BY created_at DESC
RECURSIVE order_by_created_at_desc(_)
order_by_created_at_desc(rows) ==
    IF rows = <<>> THEN <<>>
    ELSE LET i == CHOOSE a \in DOMAIN rows :
                      \A b \in DOMAIN rows : rows[b].created_at <= rows[a].created_at
         IN  <<rows[i]>> \o order_by_created_at_desc(
                 SubSeq(rows, 1, i - 1) \o SubSeq(rows, i + 1, Len(rows)))

-----------------------------------------------------------------------------
(* collections.Counter and defaultdict(list): dicts in insertion order, as  *)
(* sequences of [key, value]                                                *)

\* counter[key] += 1
incr(counter, key) ==
    IF \E i \in DOMAIN counter : counter[i].key = key
    THEN LET i == CHOOSE a \in DOMAIN counter : counter[a].key = key
         IN  [counter EXCEPT ![i].value = @ + 1]
    ELSE Append(counter, [key |-> key, value |-> 1])

\* Counter(keys)
RECURSIVE count_all(_)
count_all(keys) ==
    IF keys = <<>> THEN <<>>
    ELSE incr(count_all(SubSeq(keys, 1, Len(keys) - 1)), keys[Len(keys)])

\* sorted(items, key=itemgetter(1), reverse=True) taken the wrong way round:
\* of equal counts the later key comes first
RECURSIVE sorted_by_count_desc_unstable(_)
sorted_by_count_desc_unstable(items) ==
    IF items = <<>> THEN <<>>
    ELSE LET done == sorted_by_count_desc_unstable(SubSeq(items, 1, Len(items) - 1))
             e == items[Len(items)]
             before == SelectSeq(done, LAMBDA x : x.value > e.value)
             after == SelectSeq(done, LAMBDA x : x.value <= e.value)
         IN  before \o <<e>> \o after

\* sorted(items, key=itemgetter(1), reverse=True): by descending count, items
\* of equal count in their original order (the sort is stable)
RECURSIVE sorted_by_count_desc(_)
sorted_by_count_desc(items) ==
    IF items = <<>> THEN <<>>
    ELSE LET done == sorted_by_count_desc(SubSeq(items, 1, Len(items) - 1))
             e == items[Len(items)]
             before == SelectSeq(done, LAMBDA x : x.value >= e.value)
             after == SelectSeq(done, LAMBDA x : x.value < e.value)
         IN  before \o <<e>> \o after

TOP_THEMES == 6

\* counter.most_common(n): heapq.nlargest(n, items, key=count), which is
\* sorted(items, key=count, reverse=True)[:n]
most_common(counter, n) ==
    LET s == sorted_by_count_desc(counter)
    IN  SubSeq(s, 1, IF n < Len(s) THEN n ELSE Len(s))

\* counter.most_common()
most_common_all(counter) == sorted_by_count_desc(counter)

\* json.dumps(..., sort_keys=True) of a dict: the keys in ascending str order
RECURSIVE sort_keys(_)
sort_keys(dict) ==
    IF dict = <<>> THEN <<>>
    ELSE LET i == CHOOSE a \in DOMAIN dict :
                      \A b \in DOMAIN dict : ~StrLess(dict[b].key, dict[a].key)
         IN  <<dict[i]>> \o sort_keys(
                 SubSeq(dict, 1, i - 1) \o SubSeq(dict, i + 1, Len(dict)))

-----------------------------------------------------------------------------
(* Insights *)

NEGATIVE_THRESHOLD == -200          \* avg < -0.2

\* r['tags'].split(',') if r['tags'] else ['general']
tags_or_general(r) == IF r.tags # <<>> THEN split(r.tags, ",") ELSE <<GENERAL>>

\* the (tag, sentiment) pairs met by "for r in rows: for t in tags", in order
RECURSIVE tag_events(_)
tag_events(rows) ==
    IF rows = <<>> THEN <<>>
    ELSE LET r == rows[Len(rows)]
             tags == tags_or_general(r)
         IN  tag_events(SubSeq(rows, 1, Len(rows) - 1))
             \o [i \in 1..Len(tags) |-> [tag |-> tags[i], sentiment |-> r.sentiment]]

\* sentiments[t]: the sentiments appended under tag t, in order
RECURSIVE sentiments_of(_, _)
sentiments_of(events, t) ==
    IF events = <<>> THEN <<>>
    ELSE LET e == events[Len(events)]
             rest == sentiments_of(SubSeq(events, 1, Len(events) - 1), t)
         IN  IF e.tag = t THEN Append(rest, e.sentiment) ELSE rest

\* the keys of the defaultdict, in insertion order
group_keys(events) ==
    LET c == count_all([i \in 1..Len(events) |-> events[i].tag])
    IN  [i \in 1..Len(c) |-> c[i].key]

\* sum(counter.values())
RECURSIVE sum_values(_)
sum_values(counter) ==
    IF counter = <<>> THEN 0 ELSE counter[1].value + sum_values(Tail(counter))

\* jsonify(obj): Flask serialises with sort_keys=True, so every dict leaves in
\* ascending key order; lists keep their order.  Of the dicts of a summary,
\* by_category is the one whose order is modelled.
jsonify(overall) == [overall EXCEPT !.by_category = sort_keys(@)]

\* summary_insights without the "if not rows" return
summary_insights_unguarded(rows) ==
    LET events == tag_events(rows)
        tag_counter == count_all([i \in 1..Len(events) |-> events[i].tag])
        cat_counter == count_all([i \in 1..Len(rows) |-> rows[i].category])
        top_tags == most_common(tag_counter, TOP_THEMES)
        insights == [i \in 1..Len(top_tags) |->
                        [theme |-> top_tags[i].key,
                         count |-> top_tags[i].value,
                         avg_sentiment |->
                             FloatRound3(FloatAvg(sentiments_of(events, top_tags[i].key)))]]
        overall == [total_feedback |-> sum_values(cat_counter),
                    by_category |-> most_common_all(cat_counter),
                    top_themes |-> insights]
    IN  [status |-> 200, body |-> jsonify(overall)]

\* GET /insights/summary on the rows selected
summary_insights(rows) ==
    IF rows = <<>>
    THEN [status |-> 200, body |-> [summary |-> "no data"]]
    ELSE
    LET events == tag_events(rows)
        tag_counter == count_all([i \in 1..Len(events) |-> events[i].tag])
        cat_counter == count_all([i \in 1..Len(rows) |-> rows[i].category])
        top_tags == most_common(tag_counter, TOP_THEMES)
        insights == [i \in 1..Len(top_tags) |->
                        [theme |-> top_tags[i].key,
                         count |-> top_tags[i].value,
                         avg_sentiment |->
                             FloatRound3(FloatAvg(sentiments_of(events, top_tags[i].key)))]]
        overall == [total_feedback |-> sum_values(cat_counter),
                    by_category |-> most_common_all(cat_counter),
                    top_themes |-> insights]
    IN  [status |-> 200, body |-> jsonify(overall)]

SENTINEL == [note |-> "No strongly negative themes detected. Monitor trends."]

\* the recommendation for one theme
recommendation(tag) ==
    [theme |-> tag, issue |-> "negative_sentiment",
     suggestion |-> <<"Investigate ", tag,
         " complaints; prioritize root-cause analysis and targeted communication.">>]

\* GET /insights/actionable on the rows selected
actionable_recommendations(rows) ==
    LET events == tag_events(rows)
        keys == group_keys(events)
        negative(tag) == FloatLess(FloatAvg(sentiments_of(events, tag)), NEGATIVE_THRESHOLD)
        hits == SelectSeq(keys, negative)
        recs == [i \in 1..Len(hits) |-> recommendation(hits[i])]
    IN  [status |-> 200,
         body |-> [recommendations |-> IF recs = <<>> THEN <<SENTINEL>> ELSE recs]]

-----------------------------------------------------------------------------
(* API endpoints *)

\* POST /init: CREATE TABLE IF NOT EXISTS; the table exists since start-up
api_init ==
    /\ request' = [op |-> "init"]
    /\ response' = [status |-> 200,
                    body |-> [status |-> "ok", message |-> "database initialized"]]
    /\ UNCHANGED <<store, clock, text, analysis>>

\* the required-field test made on None instead of on the empty string
required_missing_none(title, body) == FALSE

\* not body and not title
required_missing(title, body) == body = <<>> /\ title = <<>>

\* ', '.join(tags)
join_tags_spaced(tags) == join(<<",", " ">>, tags)

\* ','.join(tags)
join_tags(tags) == join(COMMA, tags)

\* POST /feedback with JSON body data
submit_feedback(data) ==
    LET title == strip(data.title)
        body == strip(data.body)
        category == IF strip(data.category) # <<>> THEN strip(data.category)
                    ELSE UNCATEGORIZED
        contact == strip(data.contact)
        txt == title \o <<" ">> \o body
    IN  /\ request' = [op |-> "submit", data |-> data]
        /\ IF required_missing(title, body)
           THEN /\ response' = [status |-> 400,
                                body |-> [error |-> "title or body required"]]
                /\ UNCHANGED <<store, clock>>
           ELSE /\ Len(store) < MaxRecords
                /\ \E tags \in Orderings(tag_themes(txt)) :
                     LET sentiment == simple_sentiment_score(txt)
                         rows == insert(store,
                                     [title |-> title, body |-> body,
                                      category |-> category, contact |-> contact,
                                      tags |-> join_tags(tags), sentiment |-> sentiment,
                                      created_at |-> clock])
                     IN  /\ store' = rows
                         /\ response' = [status |-> 200,
                                         body |-> [status |-> "ok",
                                                   id |-> rows[Len(rows)].id,
                                                   sentiment |-> sentiment,
                                                   tags |-> tags]]
                /\ clock' = clock + 1
        /\ UNCHANGED <<text, analysis>>

\* GET /feedback?tag=..&min_sent=..
list_feedback(tag, min_sent) ==
    LET rows == order_by_created_at_desc(store)
        tags_of(r) == IF r.tags # <<>> THEN split(r.tags, ",") ELSE <<>>
        keep(r) == /\ ~(tag # <<>> /\ tag \notin Range(tags_of(r)))
                   /\ ~(r.sentiment < min_sent)
        kept == SelectSeq(rows, keep)
        out == [i \in 1..Len(kept) |-> [kept[i] EXCEPT !.tags = tags_of(kept[i])]]
    IN  /\ request' = [op |-> "list", tag |-> tag, min_sent |-> min_sent]
        /\ response' = [status |-> 200, body |-> out]
        /\ UNCHANGED <<store, clock, text, analysis>>

\* GET /insights/summary
api_summary ==
    /\ request' = [op |-> "summary"]
    /\ response' = summary_insights(store)
    /\ UNCHANGED <<store, clock, text, analysis>>

\* GET /insights/actionable
api_actionable ==
    /\ request' = [op |-> "actionable"]
    /\ response' = actionable_recommendations(store)
    /\ UNCHANGED <<store, clock, text, analysis>>

-----------------------------------------------------------------------------
(* Analyzer runs: the analysis functions applied to typed texts *)

NoAnalysis == [done |-> FALSE]

\* words a citizen types
Words ==
    { <<"G","o","o","d">>, <<"T","H","A","N","K","S">>, <<"b","a","d">>,
      <<"d","e","l","a","y","e","d">>, <<"R","e","f","u","n","d">>,
      <<"p","r","e","s","c","h","o","o","l">> }

\* what is typed between two words; "_" is a word character and glues them
Separators == { " ", "-", "_" }

WordsTyped(txt) ==
    IF txt = <<>> THEN 0
    ELSE 1 + Cardinality({ i \in DOMAIN txt : txt[i] \in Separators })

TypeWord(w, sep) ==
    /\ WordsTyped(text) < MaxWords
    /\ text' = IF text = <<>> THEN w ELSE text \o <<sep>> \o w
    /\ analysis' = NoAnalysis
    /\ UNCHANGED <<store, clock, request, response>>

\* sentiment and tags of the text, as submit_feedback computes them
Analyze ==
    /\ analysis = NoAnalysis
    /\ \E tags \in Orderings(tag_themes(text)) :
         analysis' = [done |-> TRUE,
                      sentiment |-> simple_sentiment_score(text),
                      tags |-> tags]
    /\ UNCHANGED <<store, clock, request, response, text>>

-----------------------------------------------------------------------------
(* Specifications *)

Init ==
    /\ store = <<>>
    /\ clock = 0
    /\ request = NoRequest
    /\ response = NoResponse
    /\ text = <<>>
    /\ analysis = NoAnalysis

Next ==
    \/ api_init
    \/ \E data \in Payloads : submit_feedback(data)
    \/ \E tag \in TagFilters, min_sent \in MinSents : list_feedback(tag, min_sent)
    \/ api_summary
    \/ api_actionable

\* the service handling requests
Spec == Init /\ [][Next]_vars

NextThemes ==
    \/ \E data \in ThemePayloads : submit_feedback(data)
    \/ api_summary

\* the service receiving feedback on every theme and asked for summaries
SpecThemes == Init /\ [][NextThemes]_vars

NextAnalyzer ==
    \/ \E w \in Words, sep \in Separators : TypeWord(w, sep)
    \/ Analyze

\* the analysis functions run on every text of up to MaxWords words
SpecAnalyzer == Init /\ [][NextAnalyzer]_vars

-----------------------------------------------------------------------------
(* Facts about the rows of the table, computed from the rows themselves *)

RECURSIVE SumOver(_, _)
SumOver(f, S) ==
    IF S = {} THEN 0
    ELSE LET x == CHOOSE y \in S : TRUE IN f[x] + SumOver(f, S \ {x})

\* the themes of row i: its stored tags, 'general' standing in for none
RowThemes(i) == Range(tags_or_general(store[i]))

StoreThemes == UNION { RowThemes(i) : i \in DOMAIN store }

RowsOfTheme(t) == { i \in DOMAIN store : t \in RowThemes(i) }

\* the arithmetic mean of the theme's sentiments is below -0.2
MeanBelowThreshold(t) ==
    SumOver([i \in DOMAIN store |-> store[i].sentiment], RowsOfTheme(t))
        < NEGATIVE_THRESHOLD * Cardinality(RowsOfTheme(t))

NegativeThemes == { t \in StoreThemes : MeanBelowThreshold(t) }

-----------------------------------------------------------------------------
(* Claims *)

\* C4: the actionable-recommendations operation returns exactly the one
\* sentinel note if and only if no theme's average sentiment is strictly
\* below -0.2; otherwise it returns one recommendation per theme whose
\* average is below -0.2 and no sentinel; the result is never empty.
C4_SentinelIffNoNegativeTheme ==
    request.op = "actionable" =>
        LET recs == response.body.recommendations
        IN  /\ recs # <<>>
            /\ (recs = <<SENTINEL>>) <=> (NegativeThemes = {})
            /\ NegativeThemes # {} =>
                  /\ Len(recs) = Cardinality(NegativeThemes)
                  /\ \A i \in DOMAIN recs : recs[i] = recommendation(recs[i].theme)
                  /\ { recs[i].theme : i \in DOMAIN recs } = NegativeThemes

\* Away from the threshold the statement of C4 holds: it is stated here for
\* the tables in which no theme's mean is exactly -0.2.
C4_HoldsOffThreshold ==
    (\A t \in StoreThemes :
         SumOver([i \in DOMAIN store |-> store[i].sentiment], RowsOfTheme(t))
             # NEGATIVE_THRESHOLD * Cardinality(RowsOfTheme(t)))
        => C4_SentinelIffNoNegativeTheme

\* a string of whitespace only
IsBlank(s) == \A i \in DOMAIN s : IsSpace(s[i])

C1_StoredRowsValid ==
    \A i \in DOMAIN store :
        /\ ~IsBlank(store[i].title) \/ ~IsBlank(store[i].body)
        /\ store[i].tags # <<>>

C1_BlankRejectedStep ==
    (request'.op = "submit" /\ IsBlank(request'.data.title) /\ IsBlank(request'.data.body))
        => /\ response'.status = 400
           /\ DOMAIN response'.body = {"error"}
           /\ store' = store

\* C1: a submission whose title and body are both empty after trimming is
\* answered with an error and leaves the table unchanged; so every stored row
\* has a non-blank title or a non-blank body, and a non-empty tags value.
C1_BlankSubmissionRejected == []C1_StoredRowsValid /\ [][C1_BlankRejectedStep]_vars

\* a blank submission was just rejected while the table holds rows
C1_BlankRejectedWithRows ==
    /\ request.op = "submit"
    /\ IsBlank(request.data.title) /\ IsBlank(request.data.body)
    /\ response.status = 400
    /\ Len(store) >= 1

\* C2: simple_sentiment_score returns a value in [-1.0, 1.0] for every text,
\* and so the sentiment of every stored row lies in [-1.0, 1.0].
C2_SentimentInRange ==
    /\ analysis.done => analysis.sentiment \in -1000..1000
    /\ \A i \in DOMAIN store : store[i].sentiment \in -1000..1000

\* a text scored strictly between -1 and 0
C2_FractionalScore == analysis.done /\ analysis.sentiment = -333

ThemeTags == { THEME_KEYWORDS[i].theme : i \in DOMAIN THEME_KEYWORDS } \cup {GENERAL}

\* some token of the text contains some keyword of some theme
KeywordHit(txt) ==
    \E t \in Range(tokenize(txt)) :
        \E j \in DOMAIN THEME_KEYWORDS :
            \E k \in DOMAIN THEME_KEYWORDS[j].kws :
                LET kw == THEME_KEYWORDS[j].kws[k]
                IN  \E a \in 1..Len(t) :
                        /\ a + Len(kw) - 1 <= Len(t)
                        /\ \A c \in 1..Len(kw) : t[a + c - 1] = kw[c]

\* C3: tag_themes returns a non-empty collection of labels of the seven
\* themes; 'general' is in it exactly when no token contains a keyword of
\* any theme, never together with another theme, and tag_themes("") is
\* {general}.
C3_TagsNonEmptyGeneralIffNoMatch ==
    analysis.done =>
        LET tags == Range(analysis.tags)
        IN  /\ tags # {}
            /\ tags \subseteq ThemeTags
            /\ Len(analysis.tags) = Cardinality(tags)
            /\ (GENERAL \in tags) <=> ~KeywordHit(text)
            /\ GENERAL \in tags => tags = {GENERAL}
            /\ text = <<>> => tags = {GENERAL}

\* a text tagged with a theme whose keyword lies inside a token, not at its
\* start, and with a second theme
C3_InnerKeywordTagged ==
    /\ analysis.done
    /\ Cardinality(Range(analysis.tags)) >= 2
    /\ \E t \in Range(tokenize(text)) :
         /\ Len(t) >= 9
         /\ SubSeq(t, 4, 9) = <<"s","c","h","o","o","l">>
         /\ <<"e","d","u","c","a","t","i","o","n">> \in Range(analysis.tags)

\* C5: the summary is the "no data" result exactly when the table holds no
\* rows; a summary proper has total_feedback equal to the number of rows,
\* which is at least 1.
C5_NoDataIffEmpty ==
    request.op = "summary" =>
        /\ (DOMAIN response.body = {"summary"}) <=> (store = <<>>)
        /\ DOMAIN response.body = {"summary"} => response.body.summary = "no data"
        /\ "total_feedback" \in DOMAIN response.body =>
              /\ response.body.total_feedback = Len(store)
              /\ response.body.total_feedback >= 1

\* a summary was asked of the empty table
C5_SummaryOfEmptyTable ==
    request.op = "summary" /\ store = <<>> /\ response.status = 200

\* the tags met while iterating over the first n rows, in order
RECURSIVE TagsInOrder(_)
TagsInOrder(n) ==
    IF n = 0 THEN <<>> ELSE TagsInOrder(n - 1) \o tags_or_general(store[n])

Occurrences(seq, t) == Cardinality({ i \in DOMAIN seq : seq[i] = t })

FirstSeen(seq, t) == CHOOSE i \in DOMAIN seq : seq[i] = t /\ \A j \in 1..(i - 1) : seq[j] # t

\* in seq, theme a is ranked before theme b: a higher count, or the same
\* count and met earlier
RankedBefore(seq, a, b) ==
    \/ Occurrences(seq, a) > Occurrences(seq, b)
    \/ /\ Occurrences(seq, a) = Occurrences(seq, b)
       /\ FirstSeen(seq, a) < FirstSeen(seq, b)

\* C6: top_themes holds min(6, number of distinct themes) entries in
\* non-increasing order of count, no omitted theme has a higher count than an
\* included one, and of themes with equal counts the one met first while
\* iterating over the rows is ranked, and selected, first.
C6_TopThemesRanked ==
    (request.op = "summary" /\ store # <<>>) =>
        LET top == response.body.top_themes
            seq == TagsInOrder(Len(store))
            themes == Range(seq)
            n == Cardinality(themes)
        IN  /\ Len(top) = IF n < 6 THEN n ELSE 6
            /\ \A i \in DOMAIN top :
                  /\ top[i].theme \in themes
                  /\ top[i].count = Occurrences(seq, top[i].theme)
            /\ \A i, j \in DOMAIN top :
                  i < j => /\ top[i].count >= top[j].count
                           /\ RankedBefore(seq, top[i].theme, top[j].theme)
            /\ \A o \in themes \ { top[i].theme : i \in DOMAIN top } :
                  \A i \in DOMAIN top :
                      /\ Occurrences(seq, o) <= top[i].count
                      /\ RankedBefore(seq, top[i].theme, o)

\* a summary of a table with seven distinct themes: one is left out
C6_SevenThemesSummarised ==
    request.op = "summary" /\ Cardinality(StoreThemes) = 7

C7_RowsKeptStep ==
    /\ Len(store') >= Len(store)
    /\ \A i \in DOMAIN store : store'[i] = store[i]
    /\ request'.op \in {"init", "list", "summary", "actionable"} => store' = store

\* C7: a row, once inserted by an accepted submission, keeps its id, title,
\* body, category, contact, tags, sentiment and created_at in every later
\* state and is never removed; init, list, summary and actionable leave the
\* table unchanged.
C7_RowsImmutable == [][C7_RowsKeptStep]_vars

\* rows exist and a later request has been answered
C7_QueriedAfterInserts ==
    Len(store) >= 2 /\ request.op \in {"init", "list", "summary", "actionable"}

\* no token can start with a keyword of each list: no keyword of one list
\* is a prefix of a keyword of the other
NoSharedPrefix ==
    \A p \in POSITIVE_WORDS, n \in NEGATIVE_WORDS : ~startswith(p, n) /\ ~startswith(n, p)

\* C8: the score of "" and of any text without tokens or without a matched
\* sentiment keyword is 0.0; a text with at least one token, every token
\* starting with a POSITIVE keyword, scores 1.0; with every token starting
\* with a NEGATIVE keyword, -1.0.
C8_ExtremeScores ==
    analysis.done =>
        LET toks == tokenize(text)
            pos(t) == \E p \in POSITIVE_WORDS : Len(p) <= Len(t) /\ SubSeq(t, 1, Len(p)) = p
            neg(t) == \E n \in NEGATIVE_WORDS : Len(n) <= Len(t) /\ SubSeq(t, 1, Len(n)) = n
        IN  /\ (\A i \in DOMAIN toks : ~pos(toks[i]) /\ ~neg(toks[i]))
                  => analysis.sentiment = 0
            /\ (toks # <<>> /\ \A i \in DOMAIN toks : pos(toks[i]))
                  => analysis.sentiment = 1000
            /\ (toks # <<>> /\ \A i \in DOMAIN toks : neg(toks[i]))
                  => analysis.sentiment = -1000
            /\ NoSharedPrefix

\* a text of several tokens, each starting with a POSITIVE keyword and one of
\* them longer than the keyword
C8_AllPositivePrefixed ==
    /\ analysis.done
    /\ Len(tokenize(text)) >= 2
    /\ \A t \in Range(tokenize(text)) : \E p \in POSITIVE_WORDS : startswith(t, p)
    /\ \E t \in Range(tokenize(text)) : t \notin POSITIVE_WORDS
    /\ analysis.sentiment = 1000

\* C9: by_category maps each category present to its number of rows and is
\* emitted with its entries in descending order of count.
C9_ByCategoryDescending ==
    (request.op = "summary" /\ store # <<>>) =>
        LET bc == response.body.by_category
        IN  /\ { bc[i].key : i \in DOMAIN bc } = { store[i].category : i \in DOMAIN store }
            /\ \A i, j \in DOMAIN bc : i # j => bc[i].key # bc[j].key
            /\ \A i \in DOMAIN bc :
                  bc[i].value = Cardinality({ r \in DOMAIN store : store[r].category = bc[i].key })
            /\ \A i, j \in DOMAIN bc : i < j => bc[i].value >= bc[j].value

\* C10: for every accepted submission, splitting the stored comma-joined tags
\* gives back the tags tag_themes computed (the ones the response reports),
\* and the stored tags value is never empty, so the 'general' default of the
\* aggregations is never taken.
C10_TagsRoundTrip ==
    /\ \A i \in DOMAIN store :
          /\ store[i].tags # <<>>
          /\ Range(split(store[i].tags, ",")) =
                 tag_themes(store[i].title \o <<" ">> \o store[i].body)
    /\ (request.op = "submit" /\ response.status = 200) =>
          split(store[Len(store)].tags, ",") = response.body.tags

\* a row stored with several tags
C10_SeveralTagsStored ==
    \E i \in DOMAIN store : Len(split(store[i].tags, ",")) >= 2

=============================================================================
